---- MODULE Spec2Model ----
(***************************************************************************)
(* A model of ShardHandler (controller.py): a text dataset split into      *)
(* primary shard files data/<id>.txt, replica files data/<id>-<level>.txt, *)
(* and the mapping (the index) kept in memory and in mapping.json.         *)
(*                                                                         *)
(* Strings are sequences of character codes, so that str(), int(),         *)
(* "'-' in key", f[0], x[-1] and sorted() behave as they do on Python      *)
(* strings: "10" is <<49, 48>> and sorts before "2".  A file is named by   *)
(* its stem (the name without ".txt").                                     *)
(***************************************************************************)
EXTENDS Integers, Sequences, FiniteSets, TLC

\* Bounds of the model.
MaxShards == 12
MaxLen == 12
MaxLevel == 2
MaxFaults == 1
MaxFaultShards == 2
MaxSteps == 5

\* Character codes.
Dash == 45
Zero == 48

VARIABLES
    mapping,             \* self.mapping: id -> [start, end]
    mapfile,             \* mapping.json: [exists, map]
    files,               \* the files of ./data: stem -> content
    data_dir,            \* whether ./data exists
    last_char_position,  \* self.last_char_position
    replication_level,   \* self.replication_level
    op,                  \* the last operation called
    res,                 \* how it ended: "ok", "rejected" or "error"
    prev,                \* the step before the last one, see Remembered
    faults,              \* number of outside changes made to ./data
    steps,               \* number of calls and outside changes so far
    split                \* a call of _generate_sharded_data on its own

vars == <<mapping, mapfile, files, data_dir, last_char_position,
          replication_level, op, res, prev, faults, steps, split>>

----------------------------------------------------------------------------
\* Strings

Min(a, b) == IF a < b THEN a ELSE b

RECURSIVE str(_)
\* str(n), the decimal digits of n >= 0
str(n) ==
    IF n < 10 THEN <<Zero + n>> ELSE str(n \div 10) \o <<Zero + (n % 10)>>

RECURSIVE int(_)
\* int(s) of a non-empty string of digits
int(s) ==
    IF Len(s) = 1 THEN s[1] - Zero
    ELSE 10 * int(SubSeq(s, 1, Len(s) - 1)) + (s[Len(s)] - Zero)

\* '-' in s
HasDash(s) == \E i \in 1..Len(s) : s[i] = Dash

\* s.index('-')  (0-based), for a string that has a dash
IndexOfDash(s) ==
    (CHOOSE i \in 1..Len(s) : s[i] = Dash /\ \A j \in 1..(i - 1) : s[j] # Dash) - 1

\* s.split('-')[0]
BeforeDash(s) == IF HasDash(s) THEN SubSeq(s, 1, IndexOfDash(s)) ELSE s

\* f"{shard}-{level}"
ReplicaName(shard, level) == shard \o <<Dash>> \o str(level)

\* a < b as Python compares strings
StrLess(a, b) ==
    \E k \in 1..(Min(Len(a), Len(b)) + 1) :
        /\ \A j \in 1..(k - 1) : a[j] = b[j]
        /\ \/ k > Len(a) /\ k <= Len(b)
           \/ k <= Len(a) /\ k <= Len(b) /\ a[k] < b[k]

RECURSIVE SetToSeq(_)
\* The elements of S, in some order
SetToSeq(S) ==
    IF S = {} THEN << >>
    ELSE LET m == CHOOSE x \in S : TRUE IN <<m>> \o SetToSeq(S \ {m})

\* sorted(S) for a set S of strings
Sorted(S) == SortSeq(SetToSeq(S), StrLess)

Range(s) == {s[i] : i \in 1..Len(s)}

\* The lengths of the datasets given to build_shards.
DataLens == {MaxLen - 2, MaxLen}

\* The dataset of length L: "abc..."
Data(L) == [i \in 1..L |-> 96 + i]

----------------------------------------------------------------------------
\* The mapping (a dict) and the program state as a value

EmptyMap == << >>

Put(m, k, v) == [x \in (DOMAIN m) \cup {k} |-> IF x = k THEN v ELSE m[x]]

Pop(m, k) == [x \in (DOMAIN m) \ {k} |-> m[x]]

\* The state the methods work on.
St ==
    [mapping |-> mapping, mapfile |-> mapfile, files |-> files,
     data_dir |-> data_dir, last_char_position |-> last_char_position,
     replication_level |-> replication_level]

\* A call that returned, and a call that raised, in state s.
Ok(s) == [st |-> s, err |-> FALSE]
Raised(s) == [st |-> s, err |-> TRUE]

write_map(s) == [s EXCEPT !.mapfile = [exists |-> TRUE, map |-> s.mapping]]

load_map(s) == IF s.mapfile.exists THEN s.mapfile.map ELSE EmptyMap

get_shard_ids(m) == Sorted({k \in DOMAIN m : ~HasDash(k)})

get_replication_ids(m) == Sorted({k \in DOMAIN m : HasDash(k)})

\* The largest last character among the replica ids, as a number.
find_highest_replication_level(m) ==
    LET ids == get_replication_ids(m)
        last == {ids[i][Len(ids[i])] : i \in 1..Len(ids)}
    IN  IF Len(ids) > 0
        THEN (CHOOSE c \in last : \A d \in last : d <= c) - Zero
        ELSE 0

----------------------------------------------------------------------------
\* Splitting and writing shards

\* data[a:b] for 0 <= a <= b
Slice(data, a, b) == SubSeq(data, Min(a, Len(data)) + 1, Min(b, Len(data)))

\* A variant that gives the odd characters to the first piece.
_generate_sharded_data_rem_first(count, data) ==
    LET splicenum == Len(data) \div count
        rem == Len(data) % count
    IN  [z \in 1..count |->
            IF z = 1 THEN Slice(data, 0, splicenum + rem)
            ELSE Slice(data, splicenum * (z - 1) + rem, splicenum * z + rem)]

\* A variant that drops the odd characters.
_generate_sharded_data_no_rem(count, data) ==
    LET splicenum == Len(data) \div count
    IN  [z \in 1..count |-> Slice(data, splicenum * (z - 1), splicenum * z)]

\* A variant that gives one odd character to each of the first pieces.
_generate_sharded_data_balanced(count, data) ==
    LET splicenum == Len(data) \div count
        rem == Len(data) % count
    IN  [z \in 1..count |->
            Slice(data, splicenum * (z - 1) + Min(z - 1, rem),
                  splicenum * z + Min(z, rem))]

\* count > 0 (divmod raises ZeroDivisionError on 0, see the callers)
_generate_sharded_data(count, data) ==
    LET splicenum == Len(data) \div count
        rem == Len(data) % count
        result == [z \in 1..count |->
                      Slice(data, splicenum * (z - 1), splicenum * z)]
    IN  IF rem > 0
        THEN [result EXCEPT
                 ![count] = @ \o SubSeq(data, Len(data) - rem + 1, Len(data))]
        ELSE result

\* A variant that starts every entry at the end of the one before.
_write_shard_mapping_no_gap(s, num, data) ==
    LET pos == IF int(num) = 0 THEN 0 ELSE s.last_char_position
        entry == [start |-> pos, end |-> pos + Len(data)]
    IN  [s EXCEPT !.mapping = Put(s.mapping, num, entry),
                  !.last_char_position = pos + Len(data)]

\* The replication=False branch; num is a string.
_write_shard_mapping(s, num, data) ==
    LET pos == IF int(num) = 0 THEN 0 ELSE s.last_char_position
        entry == [start |-> IF pos = 0 THEN pos ELSE pos + 1,
                  end |-> pos + Len(data)]
    IN  [s EXCEPT !.mapping = Put(s.mapping, num, entry),
                  !.last_char_position = pos + Len(data)]

\* A variant that numbers the shards from 1.
_write_shard_one_based(s, num, data) ==
    _write_shard_mapping(
        [s EXCEPT !.data_dir = TRUE,
                  !.files = Put(s.files, str(num + 1), data)],
        str(num + 1), data)

_write_shard(s, num, data) ==
    _write_shard_mapping(
        [s EXCEPT !.data_dir = TRUE, !.files = Put(s.files, str(num), data)],
        str(num), data)

RECURSIVE WriteShards(_, _, _)
\* for num, d in enumerate(spliced_data): self._write_shard(num, d)
WriteShards(s, spliced_data, num) ==
    IF num >= Len(spliced_data) THEN s
    ELSE WriteShards(_write_shard(s, num, spliced_data[num + 1]),
                     spliced_data, num + 1)

RECURSIVE ReadShards(_, _)
\* The concatenation of the files of ids, in that order (all exist).
ReadShards(s, ids) ==
    IF ids = << >> THEN << >>
    ELSE s.files[ids[1] ] \o ReadShards(s, Tail(ids))

\* Whether load_data_from_shards raises: a shard id without a file.
LoadRaises(s) ==
    \E k \in Range(get_shard_ids(s.mapping)) : k \notin DOMAIN s.files

load_data_from_shards(s) == ReadShards(s, get_shard_ids(s.mapping))

----------------------------------------------------------------------------
\* Reconciliation

\* The primary and the replica files among the files fs, as os.listdir and
\* the test "'-' in filename" tell them apart.
PrimaryFiles(fs) == {f \in DOMAIN fs : ~HasDash(f)}

ReplicaFiles(fs) == {f \in DOMAIN fs : HasDash(f)}

Primaries(s) == PrimaryFiles(s.files)

Replications(s) == ReplicaFiles(s.files)

\* The one-character string c, as f[0] of a file name is.
Char(c) == <<c>>

RECURSIVE RepairPrimaries(_, _, _)
\* The loop of verify_primaries over expected_ids; primary_ids holds the
\* first characters of the primary files listed before the loop.
RepairPrimaries(s, primary_ids, expected_ids) ==
    IF expected_ids = << >> THEN Ok(s)
    ELSE LET id == expected_ids[1]
             target_replication ==
                 ReplicaName(id, find_highest_replication_level(s.mapping))
         IN  IF id \in {Char(c) : c \in primary_ids}
             THEN RepairPrimaries(s, primary_ids, Tail(expected_ids))
             ELSE IF target_replication \notin DOMAIN s.files
             THEN Raised(s)
             ELSE RepairPrimaries(
                      [s EXCEPT !.files = Put(@, id, @[target_replication])],
                      primary_ids, Tail(expected_ids))

verify_primaries(s) ==
    IF ~s.data_dir THEN Raised(s)
    ELSE RepairPrimaries(s, {f[1] : f \in Primaries(s)},
                         get_shard_ids(s.mapping))

\* A variant that returns after the first replica it recreates.
RepairFirstReplication(s, rs) ==
    LET stale == {f \in rs : Len(s.files[f]) # Len(s.files[Char(f[1])])}
        r == CHOOSE f \in stale : TRUE
    IN  IF stale = {} THEN s.files
        ELSE [s.files EXCEPT ![r] = s.files[Char(r[1])]]

\* A variant that measures the replica on both sides of the comparison.
CompareReplicationWithItself(s, rs) == s.files

\* The files after the replicas in rs were compared with the primary named
\* by their first character and recreated from it when the sizes differ.
RepairReplications(s, rs) ==
    [f \in DOMAIN s.files |->
        IF f \in rs /\ Len(s.files[f]) # Len(s.files[Char(f[1])])
        THEN s.files[Char(f[1])]
        ELSE s.files[f]]

\* The outcomes of verify_replications.  os.listdir gives the replicas in
\* any order: when getsize raises on a replica without a primary, any set of
\* the other replicas was handled before it.
verify_replications(s) ==
    LET orphans == {r \in Replications(s) : Char(r[1]) \notin DOMAIN s.files}
    IN  IF ~s.data_dir THEN {Raised(s)}
        ELSE IF orphans = {}
        THEN {Ok([s EXCEPT !.files = RepairReplications(s, Replications(s))])}
        ELSE {Raised([s EXCEPT !.files = RepairReplications(s, rs)]) :
                 rs \in SUBSET (Replications(s) \ orphans)}

\* A variant without the test for replica ids.
sync_replication_unguarded(s) ==
    LET p == verify_primaries(s)
    IN  IF p.err THEN {p} ELSE verify_replications(p.st)

sync_replication(s) ==
    IF get_replication_ids(s.mapping) # << >>
    THEN LET p == verify_primaries(s)
         IN  IF p.err THEN {p} ELSE verify_replications(p.st)
    ELSE {Ok(s)}

----------------------------------------------------------------------------
\* Shard manager

\* A variant without the test for an existing mapping.
build_shards_unchecked(s, count, data) ==
    IF count = 0 THEN [st |-> s, err |-> TRUE, rejected |-> FALSE]
    ELSE [st |-> write_map(
                     WriteShards(s, _generate_sharded_data(count, data), 0)),
          err |-> FALSE, rejected |-> FALSE]

build_shards(s, count, data) ==
    IF DOMAIN s.mapping # {} THEN [st |-> s, err |-> FALSE, rejected |-> TRUE]
    ELSE IF count = 0 THEN [st |-> s, err |-> TRUE, rejected |-> FALSE]
    ELSE [st |-> write_map(
                     WriteShards(s, _generate_sharded_data(count, data), 0)),
          err |-> FALSE, rejected |-> FALSE]

\* keys = [int(z) for z in self.get_shard_ids()]
Keys(s) == {int(z) : z \in Range(get_shard_ids(s.mapping))}

MaxOf(S) == CHOOSE k \in S : \A j \in S : j <= k

\* A variant without the trailing sync_replication.
add_shard_without_sync(s) ==
    LET s1 == [s EXCEPT !.mapping = load_map(s)]
        new_shard_num == MaxOf(Keys(s1)) + 2
        spliced_data ==
            _generate_sharded_data(new_shard_num, load_data_from_shards(s1))
    IN  IF LoadRaises(s1) \/ Keys(s1) = {} THEN {Raised(s1)}
        ELSE {Ok(write_map(WriteShards(s1, spliced_data, 0)))}

add_shard(s) ==
    LET s1 == [s EXCEPT !.mapping = load_map(s)]
        new_shard_num == MaxOf(Keys(s1)) + 2
        spliced_data ==
            _generate_sharded_data(new_shard_num, load_data_from_shards(s1))
    IN  IF LoadRaises(s1) \/ Keys(s1) = {} THEN {Raised(s1)}
        ELSE sync_replication(write_map(WriteShards(s1, spliced_data, 0)))

\* The files remove_shard deletes: those of shard num.
FilesOfShard(s, num) ==
    {f \in DOMAIN s.files :
        IF HasDash(f) THEN BeforeDash(f) = str(num) ELSE f = str(num)}

remove_shard(s) ==
    LET s1 == [s EXCEPT !.mapping = load_map(s)]
        new_shard_num == MaxOf(Keys(s1))
        spliced_data ==
            _generate_sharded_data(new_shard_num, load_data_from_shards(s1))
        kept == (DOMAIN s1.files) \ FilesOfShard(s1, new_shard_num)
        s2 == [s1 EXCEPT !.files = [f \in kept |-> s1.files[f]],
                         !.mapping = Pop(s1.mapping, str(new_shard_num))]
    IN  IF LoadRaises(s1) \/ Keys(s1) = {} THEN {Raised(s1)}
        ELSE IF new_shard_num = 0 \/ ~s1.data_dir THEN {Raised(s1)}
        ELSE sync_replication(write_map(WriteShards(s2, spliced_data, 0)))

----------------------------------------------------------------------------
\* Replication manager

RECURSIVE Winners(_, _)
\* os.listdir gives the files in any order, and two primaries with the same
\* first character are copied to the same replica: for each first character
\* in cs, the file of fs copied last.
Winners(fs, cs) ==
    IF cs = {} THEN {<< >>}
    ELSE LET c == CHOOSE x \in cs : TRUE
         IN  {Put(w, c, f) : w \in Winners(fs, cs \ {c}),
                             f \in {g \in fs : g[1] = c}}

\* The state after the loop of add_replication, last[c] being the primary
\* copied last to the replica of first character c.
Replicated(s, last) ==
    LET level == s.replication_level
        new == {ReplicaName(Char(c), level) : c \in DOMAIN last}
    IN  [s EXCEPT
            !.files = [f \in (DOMAIN s.files) \cup new |->
                          IF f \in new THEN s.files[last[f[1]]]
                          ELSE s.files[f]],
            !.mapping = [k \in (DOMAIN s.mapping) \cup
                                   {n \in new : Char(n[1]) \in DOMAIN s.mapping}
                            |-> IF k \in new THEN s.mapping[Char(k[1])]
                                ELSE s.mapping[k]]]

add_replication(s) ==
    LET s1 == [s EXCEPT !.replication_level = @ + 1]
        known == {f \in Primaries(s1) : Char(f[1]) \in DOMAIN s1.mapping}
        unknown == Primaries(s1) \ known
    IN  IF ~s1.data_dir THEN {Raised(s1)}
        ELSE IF unknown = {}
        THEN {Ok(write_map(Replicated(s1, last))) :
                 last \in Winners(known, {f[1] : f \in known})}
        ELSE \* self.mapping[f[0]] raises KeyError on g, after g was copied
             \* and any set fs of the other primaries was handled
             UNION {UNION {{Raised(Replicated(s1, Put(last, g[1], g))) :
                               last \in Winners(fs, {f[1] : f \in fs})} :
                           g \in unknown} :
                    fs \in SUBSET known}

RECURSIVE RemoveLevel(_, _, _)
\* The loop of remove_replication over keys, in the order of get_shard_ids.
RemoveLevel(s, keys, rep_count) ==
    IF keys = << >> THEN Ok(s)
    ELSE LET name == ReplicaName(str(int(keys[1])), rep_count)
             removed == [s EXCEPT
                            !.files = [f \in (DOMAIN s.files) \ {name}
                                          |-> s.files[f]]]
         IN  IF name \notin DOMAIN s.files
             THEN RemoveLevel(s, Tail(keys), rep_count)
             ELSE IF name \notin DOMAIN s.mapping THEN Raised(removed)
             ELSE RemoveLevel(
                      [removed EXCEPT !.mapping = Pop(@, name)],
                      Tail(keys), rep_count)

\* A variant that goes on to sync_replication when there is no level.
remove_replication_no_raise(s) ==
    LET s1 == [s EXCEPT !.mapping = load_map(s)]
        rep_count == s1.replication_level
        r == RemoveLevel(s1, get_shard_ids(s1.mapping), rep_count)
    IN  IF rep_count = 0 THEN sync_replication(s1)
        ELSE IF r.err THEN {r}
        ELSE sync_replication(write_map(r.st))

\* A variant that counts the level down once its replicas are removed.
remove_replication_decrementing(s) ==
    LET s1 == [s EXCEPT !.mapping = load_map(s)]
        rep_count == s1.replication_level
        r == RemoveLevel(s1, get_shard_ids(s1.mapping), rep_count)
        s2 == [r.st EXCEPT !.replication_level = @ - 1]
    IN  IF rep_count = 0 THEN {Raised(s1)}
        ELSE IF r.err THEN {r}
        ELSE sync_replication(write_map(s2))

remove_replication(s) ==
    LET s1 == [s EXCEPT !.mapping = load_map(s)]
        rep_count == s1.replication_level
        r == RemoveLevel(s1, get_shard_ids(s1.mapping), rep_count)
    IN  IF rep_count = 0 THEN {Raised(s1)}
        ELSE IF r.err THEN {r}
        ELSE sync_replication(write_map(r.st))

\* ShardHandler(): a new manager over the files left on disk.
ShardHandler(s) ==
    [s EXCEPT !.mapping = load_map(s),
              !.last_char_position = 0,
              !.replication_level =
                  find_highest_replication_level(load_map(s))]

----------------------------------------------------------------------------
\* The state machine

\* No call of _generate_sharded_data on its own.
NoSplit == [data |-> << >>, count |-> 0, done |-> FALSE, result |-> << >>]

Init ==
    /\ split = NoSplit
    /\ mapping = EmptyMap
    /\ mapfile = [exists |-> FALSE, map |-> EmptyMap]
    /\ files = << >>
    /\ data_dir = FALSE
    /\ last_char_position = 0
    /\ replication_level = 0
    /\ op = "init"
    /\ res = "ok"
    /\ prev = <<"other", "ok">>
    /\ faults = 0
    /\ steps = 0

\* The steps that prev tells apart; any other is <<"other", "ok">>.
Tracked ==
    {<<"sync_replication", "ok">>, <<"truncate_replica", "ok">>,
     <<"remove_replication", "ok">>}

\* What prev becomes at a step: the step made last, if it is tracked.
Remembered == IF <<op, res>> \in Tracked THEN <<op, res>> ELSE <<"other", "ok">>

\* The state s after the call name, which raised or not.
Becomes(s, name, outcome) ==
    /\ steps < MaxSteps
    /\ steps' = steps + 1
    /\ mapping' = s.mapping
    /\ mapfile' = s.mapfile
    /\ files' = s.files
    /\ data_dir' = s.data_dir
    /\ last_char_position' = s.last_char_position
    /\ replication_level' = s.replication_level
    /\ op' = name
    /\ res' = outcome
    /\ prev' = Remembered
    /\ UNCHANGED <<faults, split>>

Outcome(o) == IF o.err THEN "error" ELSE "ok"

\* The shard count the persisted mapping would be re-split into by add_shard.
NextCount == 
    LET keys == Keys([mapping |-> load_map(St)])
    IN  IF keys = {} THEN 0 ELSE MaxOf(keys) + 2

Restart ==
    /\ steps < MaxSteps
    /\ Becomes(ShardHandler(St), "init", "ok")

\* The shard counts given to build_shards: the small ones and the largest;
\* add_shard and remove_shard reach the counts between.
BuildCounts == {0, 1, 2, 3} \cup {MaxShards - 1, MaxShards}

\* The arguments tried: every count and dataset on an empty mapping, and two
\* of them on a mapping that build_shards rejects before it reads them.
BuildInputs ==
    IF DOMAIN mapping = {} THEN BuildCounts \X DataLens
    ELSE {<<1, MaxLen>>, <<MaxShards, MaxLen - 2>>}

BuildShards ==
    /\ steps < MaxSteps
    /\ \E <<count, L>> \in BuildInputs :
           LET o == build_shards(St, count, Data(L))
           IN  Becomes(o.st, "build_shards",
                       IF o.rejected THEN "rejected" ELSE Outcome(o))

AddShard ==
    /\ NextCount <= MaxShards
    /\ \E o \in add_shard(St) : Becomes(o.st, "add_shard", Outcome(o))

RemoveShard ==
    \E o \in remove_shard(St) : Becomes(o.st, "remove_shard", Outcome(o))

AddReplication ==
    /\ replication_level < MaxLevel
    /\ \E o \in add_replication(St) :
           Becomes(o.st, "add_replication", Outcome(o))

RemoveReplication ==
    \E o \in remove_replication(St) :
        Becomes(o.st, "remove_replication", Outcome(o))

SyncReplication ==
    \E o \in sync_replication(St) :
        Becomes(o.st, "sync_replication", Outcome(o))

Next ==
    \/ Restart
    \/ BuildShards
    \/ AddShard
    \/ RemoveShard
    \/ AddReplication
    \/ RemoveReplication
    \/ SyncReplication

Spec == Init /\ [][Next]_vars

\* Changes made to ./data from outside the program, on setups of at most
\* MaxFaultShards shards.

\* A primary file is deleted.
PrimaryDeleted ==
    /\ faults < MaxFaults
    /\ steps < MaxSteps
    /\ steps' = steps + 1
    /\ \E f \in Primaries(St) :
           /\ files' = [g \in (DOMAIN files) \ {f} |-> files[g]]
           /\ faults' = faults + 1
           /\ op' = "delete_primary"
           /\ res' = "ok"
           /\ prev' = Remembered
           /\ UNCHANGED <<mapping, mapfile, data_dir, last_char_position,
                          replication_level, split>>

DeletePrimary ==
    /\ Len(get_shard_ids(mapping)) <= MaxFaultShards
    /\ PrimaryDeleted

TruncateReplica ==
    /\ faults < MaxFaults
    /\ Len(get_shard_ids(mapping)) <= MaxFaultShards
    /\ steps < MaxSteps
    /\ steps' = steps + 1
    /\ \E f \in Replications(St) :
           /\ Len(files[f]) > 0
           /\ files' = [files EXCEPT ![f] = SubSeq(@, 1, Len(@) - 1)]
           /\ faults' = faults + 1
           /\ op' = "truncate_replica"
           /\ res' = "ok"
           /\ prev' = Remembered
           /\ UNCHANGED <<mapping, mapfile, data_dir, last_char_position,
                          replication_level, split>>

NextFaults ==
    \/ Next
    \/ DeletePrimary
    \/ TruncateReplica

SpecFaults == Init /\ [][NextFaults]_vars

\* The same, with a primary deleted also on the setup of MaxShards - 1
\* shards, which has a two-digit id.

DeleteLargePrimary ==
    /\ Len(get_shard_ids(mapping)) = MaxShards - 1
    /\ PrimaryDeleted

NextRepair ==
    \/ NextFaults
    \/ DeleteLargePrimary

SpecRepair == Init /\ [][NextRepair]_vars

\* The splitter on its own: _generate_sharded_data(count, data) for the
\* datasets of up to MaxLen characters and the counts up to MaxShards.

SplitInputs ==
    {[data |-> Data(L), count |-> c, done |-> FALSE, result |-> << >>] :
        L \in 0..MaxLen, c \in 1..MaxShards}

InitSplit ==
    /\ split \in SplitInputs
    /\ mapping = EmptyMap
    /\ mapfile = [exists |-> FALSE, map |-> EmptyMap]
    /\ files = << >>
    /\ data_dir = FALSE
    /\ last_char_position = 0
    /\ replication_level = 0
    /\ op = "init"
    /\ res = "ok"
    /\ prev = <<"other", "ok">>
    /\ faults = 0
    /\ steps = 0

Split ==
    /\ ~split.done
    /\ split' = [split EXCEPT
                     !.done = TRUE,
                     !.result = _generate_sharded_data(split.count, split.data)]
    /\ UNCHANGED <<mapping, mapfile, files, data_dir, last_char_position,
                   replication_level, op, res, prev, faults, steps>>

SpecSplit == InitSplit /\ [][Split]_vars

\* Rebalancing on its own: add_shard and remove_shard from the setups that
\* build_shards(n, data) and d calls of add_replication make, for every n up
\* to MaxShards, every dataset of up to MaxLen characters and d up to
\* MaxLevel.

\* The state of a new manager in an empty directory.
Fresh ==
    [mapping |-> EmptyMap, mapfile |-> [exists |-> FALSE, map |-> EmptyMap],
     files |-> << >>, data_dir |-> FALSE, last_char_position |-> 0,
     replication_level |-> 0]

RECURSIVE AddLevels(_, _)
\* The states after d calls of add_replication that returned, from state s.
AddLevels(s, d) ==
    IF d = 0 THEN {s}
    ELSE UNION {{o.st : o \in {x \in add_replication(t) : ~x.err}} :
                   t \in AddLevels(s, d - 1)}

InitRebalance ==
    /\ \E n \in 1..MaxShards : \E L \in 1..MaxLen : \E d \in 1..MaxLevel :
           \E s \in AddLevels(build_shards(Fresh, n, Data(L)).st, d) :
               /\ mapping = s.mapping
               /\ mapfile = s.mapfile
               /\ files = s.files
               /\ data_dir = s.data_dir
               /\ last_char_position = s.last_char_position
               /\ replication_level = s.replication_level
    /\ op = "add_replication"
    /\ res = "ok"
    /\ prev = <<"other", "ok">>
    /\ faults = 0
    /\ steps = 0
    /\ split = NoSplit

NextRebalance ==
    \/ AddShard
    \/ RemoveShard

SpecRebalance == InitRebalance /\ [][NextRebalance]_vars

----------------------------------------------------------------------------
\* What the claims speak of

\* The ids "0" .. "n-1"
Ids(n) == {str(i) : i \in 0..(n - 1)}

\* The shard ids of the index m
ShardIds(m) == {k \in DOMAIN m : ~HasDash(k)}

\* The replica ids of the index m
ReplicaIds(m) == {k \in DOMAIN m : HasDash(k)}

\* The level of the replica name r: the number after the dash
LevelOf(r) == int(SubSeq(r, IndexOfDash(r) + 2, Len(r)))

RECURSIVE Concat(_, _)
\* The files of the shards numbered ks, joined in ascending numeric order
Concat(fs, ks) ==
    IF ks = {} THEN << >>
    ELSE LET k == CHOOSE x \in ks : \A y \in ks : x <= y
         IN  fs[str(k)] \o Concat(fs, ks \ {k})

\* The dataset: the primary files joined in ascending numeric id order
Dataset(fs) == Concat(fs, {int(f) : f \in PrimaryFiles(fs)})

\* A setup of n primary shards: ids 0..n-1 in the persisted index, which the
\* manager holds, and one primary file on disk for each.
Setup(n) ==
    /\ mapping = load_map(St)
    /\ ShardIds(mapping) = Ids(n)
    /\ PrimaryFiles(files) = Ids(n)

\* The last step was a call of name that returned without raising.
Completed(name) == op = name /\ res = "ok"

----------------------------------------------------------------------------
\* The claims

\* C1: after add_shard on a setup of n >= 1 primary shards whose dataset has
\* at least n+1 characters, the index and the disk hold exactly the primary
\* shards 0..n, and the primary files joined in ascending numeric id order
\* are the dataset that was there before the call.
C1_AddShardKeepsDataset ==
    [][\A n \in 1..MaxShards :
          (Setup(n) /\ Len(Dataset(files)) >= n + 1 /\ Completed("add_shard")')
          => /\ ShardIds(mapping') = Ids(n + 1)
             /\ PrimaryFiles(files') = Ids(n + 1)
             /\ Dataset(files') = Dataset(files)]_vars

\* C2: after remove_shard on a setup of n > 1 primary shards, the index and
\* the disk hold exactly the primary shards 0..n-2, no primary file n-1 is
\* left, and the primary files joined in ascending numeric id order are the
\* dataset that was there before the call.
C2_RemoveShardKeepsDataset ==
    [][\A n \in 2..MaxShards :
          (Setup(n) /\ Completed("remove_shard")')
          => /\ ShardIds(mapping') = Ids(n - 1)
             /\ PrimaryFiles(files') = Ids(n - 1)
             /\ str(n - 1) \notin DOMAIN files'
             /\ Dataset(files') = Dataset(files)]_vars

\* The public operations that change the index or the files.
Mutators ==
    {"build_shards", "add_shard", "remove_shard", "add_replication",
     "remove_replication"}

\* C3: when a public operation has completed, the ids of the index are the
\* names of the files of the shard directory: no entry without a file, no
\* file without an entry.
C3_IndexMatchesFiles ==
    (op \in Mutators \cup {"sync_replication"} /\ res = "ok")
    => DOMAIN mapping = DOMAIN files

\* C4: after build, add/remove shard and add/remove replication, every shard
\* id of the index has a replica, in the index and on disk, at every level
\* from 1 to the replication depth.
C4_NoReplicaGaps ==
    (op \in Mutators /\ res = "ok")
    => \A k \in ShardIds(mapping) : \A level \in 1..replication_level :
           /\ ReplicaName(k, level) \in DOMAIN mapping
           /\ ReplicaName(k, level) \in DOMAIN files

\* The deepest level among the replica files fs, 0 when there is none
DeepestLevel(fs) ==
    LET levels == {LevelOf(r) : r \in ReplicaFiles(fs)}
    IN  IF levels = {} THEN 0 ELSE CHOOSE d \in levels : \A e \in levels : e <= d

\* C5: remove_replication on a setup whose deepest replica level is d >= 1
\* deletes the replica files of level d with their index entries, and
\* nothing else, at each of several calls in a row.
C5_RemoveDeepestLevel ==
    [][(DeepestLevel(files) >= 1 /\ mapping = load_map(St)
          /\ Completed("remove_replication")')
       => LET gone == {r \in ReplicaFiles(files) :
                          LevelOf(r) = DeepestLevel(files)}
          IN  /\ DOMAIN files' = (DOMAIN files) \ gone
              /\ \A f \in DOMAIN files' : files'[f] = files[f]
              /\ DOMAIN mapping' = (DOMAIN mapping) \ gone
              /\ \A k \in DOMAIN mapping' : mapping'[k] = mapping[k]]_vars

\* C6: add_replication on a setup of n primary shards and replication depth
\* d creates exactly n new files, the replica of level d+1 of each primary,
\* with the content of its primary and an index entry equal to its
\* primary's; the files and entries there before are unchanged.
C6_AddReplicationCopiesEveryShard ==
    [][\A n \in 1..MaxShards :
          (Setup(n) /\ Completed("add_replication")')
          => LET new == {ReplicaName(k, replication_level + 1) : k \in Ids(n)}
             IN  /\ new \cap DOMAIN files = {}
                 /\ DOMAIN files' = (DOMAIN files) \cup new
                 /\ DOMAIN mapping' = (DOMAIN mapping) \cup new
                 /\ \A k \in Ids(n) :
                        LET r == ReplicaName(k, replication_level + 1)
                        IN  /\ files'[r] = files[k]
                            /\ mapping'[r] = mapping[k]
                 /\ \A f \in DOMAIN files : files'[f] = files[f]
                 /\ \A k \in DOMAIN mapping : mapping'[k] = mapping[k]]_vars

\* The index, in memory and persisted, and the files are as before the step.
NothingChanged ==
    /\ files' = files
    /\ data_dir' = data_dir
    /\ mapping' = mapping
    /\ mapfile' = mapfile

\* C7: a sync_replication called right after a sync_replication that
\* completed changes no file and no index entry.
C7_SyncIdempotent ==
    [][(Completed("sync_replication") /\ op' = "sync_replication")
       => res' = "ok" /\ NothingChanged]_vars

\* C7 witness: two calls of sync_replication in a row have completed on a
\* replicated setup whose files were changed from outside.
C7_Witness ==
    /\ Completed("sync_replication")
    /\ prev = <<"sync_replication", "ok">>
    /\ ReplicaIds(mapping) # {}
    /\ faults > 0

\* The shard a replica file belongs to
Parent(r) == BeforeDash(r)

\* C8: when sync_replication completes on an index with a replica id, every
\* replica file has the size of its primary; a replica whose size differed
\* from its primary's before the call now has the primary's content, and a
\* replica whose size matched is as it was.
C8_ReplicaRepair ==
    [][(ReplicaIds(mapping) # {} /\ Completed("sync_replication")')
       => /\ \A r \in ReplicaFiles(files') :
                 /\ Parent(r) \in DOMAIN files'
                 /\ Len(files'[r]) = Len(files'[Parent(r)])
          /\ \A r \in ReplicaFiles(files) :
                 Parent(r) \in DOMAIN files
                 => /\ r \in DOMAIN files'
                    /\ files'[Parent(r)] = files[Parent(r)]
                    /\ IF Len(files[r]) # Len(files[Parent(r)])
                       THEN files'[r] = files[Parent(r)]
                       ELSE files'[r] = files[r]]_vars

\* C8 witness: sync_replication has completed right after a replica was
\* truncated, and the replicas have the sizes of their primaries again.
C8_Witness ==
    /\ Completed("sync_replication")
    /\ prev = <<"truncate_replica", "ok">>
    /\ ReplicaIds(mapping) # {}
    /\ \A r \in ReplicaFiles(files) : Len(files[r]) = Len(files[Parent(r)])

\* A shard id of the persisted index has no primary file.
PrimaryMissing == \E k \in ShardIds(load_map(St)) : k \notin DOMAIN files

\* C9: on an index without replica ids sync_replication returns and changes
\* neither a file nor the index, a missing primary stays missing, and the
\* add_shard or remove_shard called next raises when it reads the shards.
C9_SyncNoReplicasNoOp ==
    [][/\ (ReplicaIds(mapping) = {} /\ op' = "sync_replication")
          => res' = "ok" /\ NothingChanged
       /\ (/\ Completed("sync_replication")
           /\ ReplicaIds(mapping) = {}
           /\ PrimaryMissing
           /\ op' \in {"add_shard", "remove_shard"})
          => res' = "error" /\ files' = files /\ mapfile' = mapfile]_vars

\* C9 witness: add_shard or remove_shard has raised right after a
\* sync_replication that completed, on an index without replica ids and with
\* a primary file missing.
C9_Witness ==
    /\ op \in {"add_shard", "remove_shard"}
    /\ res = "error"
    /\ prev = <<"sync_replication", "ok">>
    /\ ReplicaIds(mapping) = {}
    /\ PrimaryMissing

\* C10: build_shards called on a non-empty index is rejected and changes
\* neither a file nor the index, in memory and persisted.
C10_BuildRejected ==
    [][(DOMAIN mapping # {} /\ op' = "build_shards")
       => res' = "rejected" /\ NothingChanged]_vars

\* C10 witness: build_shards was rejected on an index with shards.
C10_Witness ==
    /\ op = "build_shards"
    /\ res = "rejected"
    /\ ShardIds(mapping) # {}
    /\ DOMAIN files # {}

\* The step is the call build_shards(n, data) on the dataset of length L.
BuildStep(n, L) ==
    LET o == build_shards(St, n, Data(L))
    IN  /\ op' = "build_shards"
        /\ res' = (IF o.rejected THEN "rejected" ELSE Outcome(o))
        /\ mapping' = o.st.mapping
        /\ mapfile' = o.st.mapfile
        /\ files' = o.st.files

\* C11: after build_shards(n, data) on an empty index with 1 <= n <=
\* len(data), get_shard_ids returns exactly the n ids 0..n-1, each id has a
\* primary file, and the primary files joined in ascending numeric id order
\* are data.
C11_BuildShards ==
    [][\A n \in BuildCounts : \A L \in DataLens :
          (DOMAIN mapping = {} /\ 1 <= n /\ n <= L /\ BuildStep(n, L))
          => /\ res' = "ok"
             /\ Len(get_shard_ids(mapping')) = n
             /\ Range(get_shard_ids(mapping')) = Ids(n)
             /\ PrimaryFiles(files') = Ids(n)
             /\ Concat(files', 0..(n - 1)) = Data(L)]_vars

\* C11 witness: build_shards has made the largest setup, with two-digit
\* ids, from the longest dataset.
C11_Witness ==
    /\ Completed("build_shards")
    /\ ShardIds(mapping) = Ids(MaxShards)
    /\ PrimaryFiles(files) = Ids(MaxShards)
    /\ Dataset(files) = Data(MaxLen)

\* "abcdefghij"
Scenario == <<97, 98, 99, 100, 101, 102, 103, 104, 105, 106>>

\* C12 as stated: build_shards(3, "abcdefghij") on an empty index makes the
\* primary shards "abcd", "efg", "hij" (sizes 4, 3, 3), which joined are
\* "abcdefghij".
C12_ScenarioAsStated ==
    [][(DOMAIN mapping = {} /\ BuildStep(3, Len(Scenario)))
       => /\ PrimaryFiles(files') = Ids(3)
          /\ files'[str(0)] = <<97, 98, 99, 100>>
          /\ files'[str(1)] = <<101, 102, 103>>
          /\ files'[str(2)] = <<104, 105, 106>>
          /\ Dataset(files') = Scenario]_vars

\* C12 amended: build_shards(3, "abcdefghij") on an empty index makes the
\* primary shards "abc", "def", "ghij" (sizes 3, 3, 4), which joined are
\* "abcdefghij".
C12_Scenario ==
    [][(DOMAIN mapping = {} /\ BuildStep(3, Len(Scenario)))
       => /\ res' = "ok"
          /\ PrimaryFiles(files') = Ids(3)
          /\ files'[str(0)] = <<97, 98, 99>>
          /\ files'[str(1)] = <<100, 101, 102>>
          /\ files'[str(2)] = <<103, 104, 105, 106>>
          /\ Dataset(files') = Scenario]_vars

\* C12 witness: build_shards has split "abcdefghij" into three shards.
C12_Witness ==
    /\ Completed("build_shards")
    /\ ShardIds(mapping) = Ids(3)
    /\ DOMAIN files = Ids(3)
    /\ Dataset(files) = Scenario

RECURSIVE Join(_)
\* The pieces joined in order
Join(pieces) ==
    IF pieces = << >> THEN << >> ELSE pieces[1] \o Join(Tail(pieces))

\* The call of the splitter was on a count the claims cover.
SplitDone ==
    split.done /\ 1 <= split.count /\ split.count <= Len(split.data)

\* C13: for 1 <= count <= len(data), _generate_sharded_data(count, data)
\* returns exactly count pieces, which joined in order are data.
C13_SplitRoundTrip ==
    SplitDone
    => /\ Len(split.result) = split.count
       /\ Len(Join(split.result)) = Len(split.data)
       /\ Join(split.result) = split.data

\* C13 witness: the longest dataset was split into several pieces by a count
\* that does not divide its length.
C13_Witness ==
    /\ SplitDone
    /\ Len(split.data) = MaxLen
    /\ split.count > 1
    /\ Len(split.data) % split.count # 0
    /\ Join(split.result) = split.data

\* C18: for 1 <= count <= len(data), with base = len(data) div count and
\* remainder = len(data) mod count, the pieces 0..count-2 have length base,
\* piece i being data[i*base : (i+1)*base], and the last piece is the rest
\* of data, of length base + remainder.
C18_SplitShape ==
    SplitDone
    => LET base == Len(split.data) \div split.count
           remainder == Len(split.data) % split.count
       IN  /\ DOMAIN split.result = 1..split.count
           /\ \A i \in 0..(split.count - 2) :
                  /\ Len(split.result[i + 1]) = base
                  /\ split.result[i + 1] =
                         SubSeq(split.data, i * base + 1, (i + 1) * base)
           /\ Len(split.result[split.count]) = base + remainder
           /\ split.result[split.count] =
                  SubSeq(split.data, (split.count - 1) * base + 1,
                         Len(split.data))

\* C18 witness: a split into three pieces or more left two odd characters or
\* more, and the first piece has the base length.
C18_Witness ==
    /\ SplitDone
    /\ split.count >= 3
    /\ Len(split.data) % split.count >= 2
    /\ Len(split.result[1]) = Len(split.data) \div split.count
    /\ Len(split.result[split.count]) > Len(split.result[1]) + 1

\* C14: remove_replication called at replication level 0 raises and leaves
\* the files, the index (in memory and persisted) and the level as they
\* were; a return, as sync_replication gives on an index without replicas,
\* is not what happens.
C14_NothingToRemove ==
    [][(replication_level = 0 /\ op' = "remove_replication")
       => /\ res' = "error"
          /\ NothingChanged
          /\ replication_level' = 0]_vars

\* C14 witness: remove_replication has raised at level 0 on a setup with
\* shards.
C14_Witness ==
    /\ op = "remove_replication"
    /\ res = "error"
    /\ replication_level = 0
    /\ ShardIds(mapping) # {}
    /\ PrimaryFiles(files) # {}

\* The numbers of the shard ids of the index m
ShardNums(m) == {int(k) : k \in ShardIds(m)}

\* The primary entries of the index m, in ascending numeric id order: shard
\* 0 starts at 0 and every other one at the end of the one before plus 1.
Chained(m) ==
    \A k \in ShardNums(m) :
        IF k = 0 THEN m[str(k)].start = 0
        ELSE /\ k - 1 \in ShardNums(m)
             /\ m[str(k)].start = m[str(k - 1)].end + 1

\* C15: after build_shards, add_shard or remove_shard into a number of
\* shards that is at most the length of the dataset, the primary entries of
\* the index, in memory and persisted, are chained with the +1 gap.
C15_PlusOneGap ==
    (/\ op \in {"build_shards", "add_shard", "remove_shard"}
     /\ res = "ok"
     /\ Cardinality(ShardIds(mapping)) <= Len(Dataset(files)))
    => /\ 0 \in ShardNums(mapping)
       /\ Chained(mapping)
       /\ Chained(load_map(St))

\* C15 witness: add_shard or remove_shard has rewritten an index of three
\* shards or more, whose last entry ends at the length of the dataset.
C15_Witness ==
    /\ op \in {"add_shard", "remove_shard"}
    /\ res = "ok"
    /\ Cardinality(ShardIds(mapping)) >= 3
    /\ Cardinality(ShardIds(mapping)) <= Len(Dataset(files))
    /\ Chained(mapping)
    /\ \E k \in ShardIds(mapping) : mapping[k].end = Len(Dataset(files))

\* The shard ids of the index without a primary file
MissingPrimaries == {k \in ShardIds(mapping) : k \notin DOMAIN files}

\* The replica of shard k at the deepest level of the index
DeepestReplica(k) ==
    ReplicaName(k, find_highest_replication_level(mapping))

\* C16: when sync_replication is called on an index with replica ids and
\* some shard ids have no primary file but have their replica of the deepest
\* level, it completes; every shard id then has a primary file, each missing
\* primary has the content of its deepest replica, and a shallower replica
\* of such a shard whose size differed has the content of the new primary.
C16_PrimaryRepairFirst ==
    [][(/\ ReplicaIds(mapping) # {}
        /\ MissingPrimaries # {}
        /\ \A k \in MissingPrimaries : DeepestReplica(k) \in DOMAIN files
        /\ op' = "sync_replication")
       => /\ res' = "ok"
          /\ \A k \in ShardIds(mapping) : k \in DOMAIN files'
          /\ \A k \in MissingPrimaries :
                 /\ files'[k] = files[DeepestReplica(k)]
                 /\ files'[DeepestReplica(k)] = files[DeepestReplica(k)]
                 /\ \A r \in ReplicaFiles(files) :
                        (/\ Parent(r) = k
                         /\ Len(files[r]) # Len(files[DeepestReplica(k)]))
                        => files'[r] = files'[k]]_vars

\* C17: after remove_shard on a setup of n > 1 primary shards where shard
\* n-1 has a replica in the index and on disk, no id of the index and no
\* file is the primary n-1 or a replica of it.
C17_RemoveShardRemovesReplicas ==
    [][\A n \in 2..MaxShards :
          (/\ Setup(n)
           /\ replication_level >= 1
           /\ \E r \in ReplicaIds(mapping) \cap ReplicaFiles(files) :
                  Parent(r) = str(n - 1)
           /\ Completed("remove_shard")')
          => /\ \A f \in DOMAIN files' : Parent(f) # str(n - 1)
             /\ \A k \in DOMAIN mapping' : Parent(k) # str(n - 1)]_vars

ReplicasIdentical(fs) ==
    \A r \in ReplicaFiles(fs) :
        Parent(r) \in DOMAIN fs /\ fs[r] = fs[Parent(r)]

\* C20: add_shard or remove_shard on a setup of n primary shards whose
\* replicas all have the content of their primary, with at most 10 shards
\* before and after and a dataset at least as long as the larger count,
\* completes and leaves every replica file with the content of its re-split
\* primary, and not only with its size.
C20_SizeCheckSuffices ==
    [][\A n \in 1..10 :
          (/\ Setup(n)
           /\ ReplicasIdentical(files)
           /\ \/ op' = "add_shard" /\ n + 1 <= 10
                  /\ Len(Dataset(files)) >= n + 1
              \/ op' = "remove_shard" /\ n > 1
                  /\ Len(Dataset(files)) >= n)
          => /\ res' = "ok"
             /\ ReplicasIdentical(files')
             /\ Dataset(files') = Dataset(files)]_vars

\* C20 witness: add_shard or remove_shard has re-split a replicated setup of
\* three shards or more, and some replica has the content of a primary that
\* is no longer the whole dataset.
C20_Witness ==
    /\ op \in {"add_shard", "remove_shard"}
    /\ res = "ok"
    /\ Cardinality(ShardIds(mapping)) >= 3
    /\ Cardinality(ShardIds(mapping)) <= 10
    /\ \E r \in ReplicaFiles(files) : Parent(r) = str(2)
    /\ ReplicasIdentical(files)

====
